---- MODULE Spec2Model ----
(***************************************************************************)
(* Nightwatch: the test-result Reporter (lib/reporter/index.js) and the    *)
(* text expectation's polling assertion (lib/api/expect/text.js).          *)
(*                                                                         *)
(* Two state machines share this module.  Spec is the Reporter with its    *)
(* result ledger, its retry registry and the screenshot service;           *)
(* SpecAssertion is one TextAssertion run from construction to its         *)
(* terminal state.  The ledger (lib/reporter/results.js), the simplified   *)
(* reporter and the assertion base class (lib/api/expect/_baseAssertion.js)*)
(* are modelled from the written specification.                            *)
(***************************************************************************)
EXTENDS Integers, Sequences, FiniteSets, TLC

VARIABLES
  settings,         \* Reporter.settings: unit_tests_mode, screenshots
  suiteRetries,     \* whether the Reporter was given a retry registry
  retrySet,         \* the registry: names of the tests scheduled for retry
  currentContext,   \* Reporter.currentContext
  currentTestCase,  \* testResults.currentTest, or Null
  curKey,           \* name of the test whose TestResult is current
  testcases,        \* testResults: test name -> TestResult
  saving,           \* file names handed to ScreenshotsService, not yet saved
  events,           \* per test: how many events of each kind were registered
  lastOp,           \* the last Reporter operation, its argument and its result
  nEvents,          \* operations performed so far
  a                 \* the TextAssertion instance (SpecAssertion)

vars == <<settings, suiteRetries, retrySet, currentContext, currentTestCase,
          curKey, testcases, saving, events, lastOp, nEvents, a>>

reporterVars == <<settings, suiteRetries, retrySet, currentContext,
                  currentTestCase, curKey, testcases, saving, events, lastOp,
                  nEvents>>

----------------------------------------------------------------------------
(* Bounds *)

MaxEvents == 3

----------------------------------------------------------------------------
(* Values *)

Null == "<null>"
TestNames == {"", "t1"}
\* the tests the suite may retry: '' is the constructor's placeholder
RetryNames == {"t1"}
ModuleKey == "mod"

\* a JavaScript property that may be missing, or hold true or false
FlagVals == {"undefined", "true", "false"}
Truthy(v) == v = "true"
isUndefined(v) == v = "undefined"

ErrIds == {"e1", "e2"}
\* every error object: the decisions are checked for all of them
AllErrs == [id : ErrIds, incrementErrorCount : FlagVals,
            incrementErrorsNo : FlagVals, detailedLogging : FlagVals]
Err(id, count, no, detailed) ==
  [id |-> id, incrementErrorCount |-> count, incrementErrorsNo |-> no,
   detailedLogging |-> detailed]
\* the errors the operations are called with
Errs == {Err("e1", "undefined", "undefined", "undefined"),
         Err("e2", "false", "undefined", "undefined"),
         Err("e1", "undefined", "true", "undefined"),
         Err("e2", "undefined", "undefined", "false"),
         Err("e2", "true", "false", "true")}
NoErr == [id |-> "none", incrementErrorCount |-> "undefined",
          incrementErrorsNo |-> "undefined", detailedLogging |-> "undefined"]

NoContext == [present |-> FALSE, unitTestsMode |-> FALSE]
\* the contexts the runner hands to setCurrentTest
Contexts == [present : {TRUE}, unitTestsMode : BOOLEAN]

NoScreenshots == [present |-> FALSE, enabled |-> FALSE, on_error |-> FALSE,
                  on_failure |-> FALSE]
AllOn == [present |-> TRUE, enabled |-> TRUE, on_error |-> TRUE,
          on_failure |-> TRUE]
Disabled == [AllOn EXCEPT !.enabled = FALSE]
NotOnFailure == [AllOn EXCEPT !.on_error = FALSE, !.on_failure = FALSE]

\* the runs checked: settings, whether a retry registry was given, and the
\* number of tests skipped before the Reporter sees the test
Config(unit, shots, retries, sk) ==
  [settings |-> [unit_tests_mode |-> unit, screenshots |-> shots],
   suiteRetries |-> retries, skipped |-> sk]
Configs ==
  {Config(FALSE, AllOn, TRUE, 1),
   Config(FALSE, NoScreenshots, TRUE, 0),
   Config(FALSE, Disabled, FALSE, 0),
   Config(FALSE, NotOnFailure, TRUE, 0),
   Config(TRUE, AllOn, TRUE, 0)}

\* results handed to logAssertResult: a passed or a failed assertion
AssertResults == {[failure |-> "false"], [failure |-> "Expected X"]}

----------------------------------------------------------------------------
(* ResultLedger: lib/reporter/results.js, modelled from the specification   *)

DefaultTestResult(sk) ==
  [passed |-> 0, failed |-> 0, errors |-> 0, skipped |-> sk, tests |-> 0,
   lastError |-> NoErr, errmessages |-> <<>>, assertions |-> <<>>,
   screenshots |-> <<>>]

currentTestResult == testcases[curKey]

incrementPassedCount(r) == [r EXCEPT !.passed = @ + 1]

incrementFailedCount(r, shouldCount) ==
  IF shouldCount THEN [r EXCEPT !.failed = @ + 1] ELSE r

incrementErrorCount(r, shouldCount) ==
  IF shouldCount THEN [r EXCEPT !.errors = @ + 1] ELSE r

subtractPassedCount(r, n) == [r EXCEPT !.passed = @ - n]

logAssertion(r, result) == [r EXCEPT !.assertions = Append(@, result)]

logScreenshotFile(r, ref) == [r EXCEPT !.screenshots = Append(@, ref)]

addErrorMessage(r, msg) == [r EXCEPT !.errmessages = Append(@, msg)]

setLastError(r, err) == [r EXCEPT !.lastError = err]

\* testResults.export: the snapshot handed to downstream reporters
export ==
  [t \in TestNames |->
     [testName |-> t, passed |-> testcases[t].passed,
      failed |-> testcases[t].failed, errors |-> testcases[t].errors,
      skipped |-> testcases[t].skipped,
      assertions |-> testcases[t].assertions,
      screenshots |-> testcases[t].screenshots,
      lastError |-> testcases[t].lastError]]

\* RetryRegistry.shouldRetryTest(name)
shouldRetryTest(name) == name \in retrySet

----------------------------------------------------------------------------
(* Collaborators from lib/utils                                             *)

\* Utils.errorToStackTrace(err): the printable form of an error
errorToStackTrace(err) == <<"Error", err.id, "stack">>

\* Screenshots.getFileName(prefix, isError, path)
getFileName(prefix, isError) == [prefix |-> prefix, isError |-> isError]

----------------------------------------------------------------------------
(* Reporter: lib/reporter/index.js                                          *)

\* get currentTest
currentTest ==
  IF currentTestCase = Null
    THEN [present |-> FALSE, name |-> Null, module |-> ModuleKey]
    ELSE [present |-> TRUE, name |-> currentTestCase, module |-> ModuleKey]

\* mutant: the current context is not looked at
unitTestsMode_settingsOnly == settings.unit_tests_mode

\* get unitTestsMode
unitTestsMode ==
  IF currentContext.present THEN currentContext.unitTestsMode
                            ELSE settings.unit_tests_mode

\* line 71: the && chain short-circuits, so the registry is asked only when
\* there is a current test and a registry
retryQueries == IF currentTest.present /\ suiteRetries THEN 1 ELSE 0

shouldRetryTestcase ==
  currentTest.present /\ suiteRetries /\ shouldRetryTest(currentTest.name)

\* mutant: the incrementErrorsNo flag is not looked at
shouldIncrementTotalCount_ignoresErrorsNo(err) ==
  LET incrementTotalCount ==
        Truthy(err.incrementErrorCount) \/ isUndefined(err.incrementErrorCount)
  IN  IF shouldRetryTestcase THEN FALSE ELSE incrementTotalCount

shouldIncrementTotalCount(err) ==
  LET incrementTotalCount ==
        Truthy(err.incrementErrorCount) \/ isUndefined(err.incrementErrorCount)
  IN  IF Truthy(err.incrementErrorsNo) \/ shouldRetryTestcase
        THEN FALSE
        ELSE incrementTotalCount

\* get shouldTakeFailureScreenshot
shouldTakeFailureScreenshot ==
  /\ ~unitTestsMode
  /\ settings.screenshots.present
  /\ settings.screenshots.enabled
  /\ settings.screenshots.on_failure

Op(name, err, counted, queries, threw, ret) ==
  [op |-> name, err |-> err, counted |-> counted, queries |-> queries,
   threw |-> threw, ret |-> ret]

\* an operation that writes the ledger or the Reporter
Step(op) ==
  /\ nEvents < MaxEvents
  /\ nEvents' = nEvents + 1
  /\ lastOp' = op
  /\ UNCHANGED a

\* an operation that only reads
Read(op) ==
  /\ lastOp' = op
  /\ UNCHANGED <<nEvents, a>>

Ledger(r) == testcases' = [testcases EXCEPT ![curKey] = r]

Bump(counted) == IF counted THEN 1 ELSE 0

setCurrentTest(testcase, context) ==
  /\ Step(Op("setCurrentTest", NoErr, FALSE, 0, FALSE, <<>>))
  /\ currentContext' = context
  /\ currentTestCase' = testcase
  /\ curKey' = IF testcase = Null THEN curKey ELSE testcase
  /\ UNCHANGED <<settings, suiteRetries, retrySet, testcases, saving, events>>

exportResults ==
  /\ Read(Op("exportResults", NoErr, FALSE, 0, FALSE, export))
  /\ UNCHANGED <<settings, suiteRetries, retrySet, currentContext,
                 currentTestCase, curKey, testcases, saving, events>>

logAssertResult(result) ==
  /\ Step(Op("logAssertResult", NoErr, FALSE, 0, FALSE, <<>>))
  /\ Ledger(logAssertion(currentTestResult, result))
  /\ UNCHANGED <<settings, suiteRetries, retrySet, currentContext,
                 currentTestCase, curKey, saving, events>>

\* mutant: a pass is not counted while the test is scheduled for retry
registerPassedResult_suppressed(r) ==
  IF shouldRetryTestcase THEN r ELSE incrementPassedCount(r)

registerPassedResult(r) == incrementPassedCount(r)

registerPassed ==
  /\ Step(Op("registerPassed", NoErr, TRUE, 0, FALSE, <<>>))
  /\ Ledger(registerPassedResult(currentTestResult))
  /\ events' = [events EXCEPT ![curKey].passed = @ + 1,
                              ![curKey].passedSinceReset = @ + 1]
  /\ UNCHANGED <<settings, suiteRetries, retrySet, currentContext,
                 currentTestCase, curKey, saving>>

\* mutant: the failure is counted whatever the decision
registerFailedResult_alwaysCounts(r, err) ==
  incrementFailedCount(setLastError(r, err), TRUE)

\* mutant: lastError is recorded only for a counted failure
registerFailedResult_keepsLastError(r, err) ==
  IF shouldIncrementTotalCount(err)
    THEN incrementFailedCount(setLastError(r, err), TRUE)
    ELSE r

registerFailedResult(r, err) ==
  incrementFailedCount(setLastError(r, err), shouldIncrementTotalCount(err))

registerFailed(err) ==
  /\ Step(Op("registerFailed", err, shouldIncrementTotalCount(err),
             retryQueries, FALSE, <<>>))
  /\ Ledger(registerFailedResult(currentTestResult, err))
  /\ events' = [events EXCEPT
                  ![curKey].failed = @ + 1,
                  ![curKey].failedCounted =
                     @ + Bump(shouldIncrementTotalCount(err))]
  /\ UNCHANGED <<settings, suiteRetries, retrySet, currentContext,
                 currentTestCase, curKey, saving>>

\* mutant: the message is logged without looking at err.detailedLogging
registerTestErrorResult_alwaysLogs(r, err) ==
  LET logged == IF shouldIncrementTotalCount(err)
                  THEN addErrorMessage(r, errorToStackTrace(err))
                  ELSE r
  IN  incrementErrorCount(setLastError(logged, err),
                          shouldIncrementTotalCount(err))

\* mutant: the error is counted whatever the decision
registerTestErrorResult_alwaysCounts(r, err) ==
  LET detailedLogging ==
        Truthy(err.detailedLogging) \/ isUndefined(err.detailedLogging)
      logged == IF shouldIncrementTotalCount(err) /\ detailedLogging
                  THEN addErrorMessage(r, errorToStackTrace(err))
                  ELSE r
  IN  incrementErrorCount(setLastError(logged, err), TRUE)

\* mutant: the message is logged without looking at the counting decision
registerTestErrorResult_logsUncounted(r, err) ==
  LET detailedLogging ==
        Truthy(err.detailedLogging) \/ isUndefined(err.detailedLogging)
      logged == IF detailedLogging
                  THEN addErrorMessage(r, errorToStackTrace(err))
                  ELSE r
  IN  incrementErrorCount(setLastError(logged, err),
                          shouldIncrementTotalCount(err))

registerTestErrorResult(r, err) ==
  LET detailedLogging ==
        Truthy(err.detailedLogging) \/ isUndefined(err.detailedLogging)
      logged == IF shouldIncrementTotalCount(err) /\ detailedLogging
                  THEN addErrorMessage(r, errorToStackTrace(err))
                  ELSE r
  IN  incrementErrorCount(setLastError(logged, err),
                          shouldIncrementTotalCount(err))

registerTestError(err) ==
  /\ Step(Op("registerTestError", err, shouldIncrementTotalCount(err),
             retryQueries + retryQueries, FALSE, <<>>))
  /\ Ledger(registerTestErrorResult(currentTestResult, err))
  /\ events' = [events EXCEPT
                  ![curKey].errors = @ + 1,
                  ![curKey].errorsCounted =
                     @ + Bump(shouldIncrementTotalCount(err))]
  /\ UNCHANGED <<settings, suiteRetries, retrySet, currentContext,
                 currentTestCase, curKey, saving>>

\* mutant: every logged assertion is subtracted, not only the passed ones
resetCurrentTestPassedCountResult_allAssertions(r) ==
  LET assertionsCount == r.passed + r.failed
  IN  subtractPassedCount(r, assertionsCount)

resetCurrentTestPassedCountResult(r) ==
  LET assertionsCount == r.passed
  IN  subtractPassedCount(r, assertionsCount)

resetCurrentTestPassedCount ==
  /\ Step(Op("resetCurrentTestPassedCount", NoErr, FALSE, 0, FALSE, <<>>))
  /\ Ledger(resetCurrentTestPassedCountResult(currentTestResult))
  /\ events' = [events EXCEPT ![curKey].passedSinceReset = 0]
  /\ UNCHANGED <<settings, suiteRetries, retrySet, currentContext,
                 currentTestCase, curKey, saving>>

----------------------------------------------------------------------------
(* getFailureMessage: strings are sequences of one-character separators     *)
(* and comma-free words                                                     *)

RECURSIVE join(_, _)
join(parts, sep) ==
  IF Len(parts) = 0 THEN <<>>
  ELSE IF Len(parts) = 1 THEN parts[1]
  ELSE parts[1] \o sep \o join(Tail(parts), sep)

\* Logger.colors.<color>(n)
colors(color, n) == <<"<" \o color \o ">", ToString(n), "</>">>

\* String.replace(/,([^,]*)$/g, (p0, p1) => ` and ${p1}`): the match starts
\* at the last comma, p1 is everything after it
replaceLastComma(str) ==
  LET commas == {i \in 1..Len(str) : str[i] = ","}
  IN  IF commas = {} THEN str
      ELSE LET i  == CHOOSE k \in commas : \A j \in commas : j <= k
               p1 == SubSeq(str, i + 1, Len(str))
           IN  SubSeq(str, 1, i - 1) \o <<" ", "and", " ">> \o p1

failureMsgParts(r) ==
     (IF r.failed > 0
        THEN << colors("red", r.failed) \o <<" ", "assertions", " ", "failed">> >>
        ELSE <<>>)
  \o (IF r.errors > 0
        THEN << colors("red", r.errors) \o <<" ", "errors">> >>
        ELSE <<>>)
  \o (IF r.passed > 0
        THEN << colors("green", r.passed) \o <<" ", "passed">> >>
        ELSE <<>>)
  \o (IF r.skipped > 0
        THEN << colors("blue", r.skipped) \o <<" ", "skipped">> >>
        ELSE <<>>)

getFailureMessageResult(r) ==
  replaceLastComma(join(failureMsgParts(r), <<",", " ">>))

getFailureMessage ==
  /\ Read(Op("getFailureMessage", NoErr, FALSE, 0, FALSE,
             getFailureMessageResult(currentTestResult)))
  /\ UNCHANGED <<settings, suiteRetries, retrySet, currentContext,
                 currentTestCase, curKey, testcases, saving, events>>

----------------------------------------------------------------------------
(* Screenshots                                                              *)

saveErrorScreenshot(screenshotContent) ==
  LET prefix   == <<currentTest.module, "/", currentTest.name>>
      fileName == getFileName(prefix, TRUE)
      taken    == settings.screenshots.on_error /\ screenshotContent
      \* reading on_error of a missing settings.screenshots, or module of a
      \* null currentTest, is a TypeError
      threw    == \/ ~settings.screenshots.present
                  \/ taken /\ ~currentTest.present
  IN  /\ Step(Op("saveErrorScreenshot", NoErr, FALSE, 0, threw, <<>>))
      /\ IF ~threw /\ taken
           THEN Ledger(logScreenshotFile(currentTestResult, fileName))
           ELSE UNCHANGED testcases
      /\ UNCHANGED <<settings, suiteRetries, retrySet, currentContext,
                     currentTestCase, curKey, saving, events>>

saveFailureScreenshot(isError) ==
  LET prefix   == <<currentTest.module, "/", currentTest.name, "-test-",
                    ToString(currentTestResult.tests)>>
      fileName == getFileName(prefix, isError)
      threw    == shouldTakeFailureScreenshot /\ ~currentTest.present
  IN  /\ Step(Op("saveFailureScreenshot", NoErr, FALSE, 0, threw, <<>>))
      /\ IF shouldTakeFailureScreenshot /\ ~threw
           THEN /\ Ledger(logScreenshotFile(currentTestResult, fileName))
                /\ saving' = saving \cup {fileName}
           ELSE UNCHANGED <<testcases, saving>>
      /\ UNCHANGED <<settings, suiteRetries, retrySet, currentContext,
                     currentTestCase, curKey, events>>

\* ScreenshotsService.saveScreenshot calls back: the promise resolves
screenshotSaved(fileName) ==
  /\ fileName \in saving
  /\ saving' = saving \ {fileName}
  /\ lastOp' = Op("screenshotSaved", NoErr, FALSE, 0, FALSE, <<>>)
  /\ UNCHANGED <<settings, suiteRetries, retrySet, currentContext,
                 currentTestCase, curKey, testcases, events, nEvents, a>>

\* the external scheduler, owner of the retry registry, rewrites it
scheduleRetries(names) ==
  /\ suiteRetries
  /\ names # retrySet
  /\ retrySet' = names
  /\ lastOp' = Op("scheduleRetries", NoErr, FALSE, 0, FALSE, <<>>)
  /\ UNCHANGED <<settings, suiteRetries, currentContext, currentTestCase,
                 curKey, testcases, saving, events, nEvents, a>>

----------------------------------------------------------------------------
(* The Reporter's state machine                                             *)

NoEvents == [passed |-> 0, failed |-> 0, errors |-> 0, passedSinceReset |-> 0,
             failedCounted |-> 0, errorsCounted |-> 0]

AssertionIdle == [state |-> "IDLE"]

\* constructor: the ledger is built from the suite's tests and made current
\* for the test named ''
Init ==
  /\ \E c \in Configs :
       /\ settings = c.settings
       /\ suiteRetries = c.suiteRetries
       /\ testcases = [t \in TestNames |-> DefaultTestResult(c.skipped)]
  /\ retrySet = {}
  /\ currentContext = NoContext
  /\ currentTestCase = ""
  /\ curKey = ""
  /\ saving = {}
  /\ events = [t \in TestNames |-> NoEvents]
  /\ lastOp = Op("constructor", NoErr, FALSE, 0, FALSE, <<>>)
  /\ nEvents = 0
  /\ a = AssertionIdle

Next ==
  \/ \E tc \in TestNames \cup {Null}, ctx \in Contexts : setCurrentTest(tc, ctx)
  \/ exportResults
  \/ \E result \in AssertResults : logAssertResult(result)
  \/ registerPassed
  \/ \E err \in Errs : registerFailed(err)
  \/ \E err \in Errs : registerTestError(err)
  \/ resetCurrentTestPassedCount
  \/ getFailureMessage
  \/ \E content \in BOOLEAN : saveErrorScreenshot(content)
  \/ \E isError \in BOOLEAN : saveFailureScreenshot(isError)
  \/ \E f \in saving : screenshotSaved(f)
  \/ \E names \in SUBSET RetryNames : scheduleRetries(names)

Spec == Init /\ [][Next]_vars

----------------------------------------------------------------------------
(* TextAssertion: lib/api/expect/text.js, driven by the base assertion's    *)
(* poll loop (lib/api/expect/_baseAssertion.js, from the specification).    *)
(* Time is counted in ticks.                                                *)

MaxWait == 3

PollIntervals == {1, 2}
Latencies == {0, 1}
\* what one remote check reports: the predicate holds of the text, it does
\* not, or the target could not be found
Observations == {"holds", "fails", "notfound"}

Terminal(state) == state \in {"PASSED", "FAILED", "TIMED_OUT"}

\* function TextAssertion(): flags set, message built, start() called
TextAssertion(negate, waitForMs, pollInterval, hasCond) ==
  [state |-> "PENDING", negate |-> negate, waitForMs |-> waitForMs,
   pollInterval |-> pollInterval, hasCond |-> hasCond,
   message |-> <<"Expected element <%s> text to">>
                 \o (IF negate THEN <<" not">> ELSE <<>>),
   messageParts |-> <<>>, passed |-> FALSE, retries |-> 0, now |-> 0,
   elapsedTime |-> 0, remoteCalls |-> 0, polls |-> <<>>]

\* mutant: the request is put on the wire twice
executeCommand_twice(x) ==
  [x EXCEPT !.state = "EXECUTING", !.remoteCalls = @ + 2]

\* executeCommand: one elementIdText request on the wire
executeCommand(x) ==
  [x EXCEPT !.state = "EXECUTING", !.remoteCalls = @ + 1]

\* mutant: a negated assertion that is polled again counts as passed
elementFound_passesEarly(x) ==
  IF x.retries > 0 /\ x.negate THEN [x EXCEPT !.passed = TRUE]
  ELSE IF x.passed /\ x.waitForMs > 0
    THEN LET message == IF x.hasCond THEN "condition was met" ELSE ""
         IN  [x EXCEPT !.elapsedTime = x.now,
                       !.messageParts =
                          Append(@, <<" - ", message, " in ", x.now, "ms">>)]
  ELSE x

elementFound(x) ==
  IF x.retries > 0 /\ x.negate THEN x
  ELSE IF x.passed /\ x.waitForMs > 0
    THEN LET message == IF x.hasCond THEN "condition was met" ELSE ""
         IN  [x EXCEPT !.elapsedTime = x.now,
                       !.messageParts =
                          Append(@, <<" - ", message, " in ", x.now, "ms">>)]
  ELSE x

\* mutant: absence satisfies a negated assertion
elementNotFound_negate(x) == [x EXCEPT !.passed = x.negate]

\* mutant: the negation flag is applied the wrong way round
elementNotFound_inverted(x) == [x EXCEPT !.passed = ~x.negate]

elementNotFound(x) == [x EXCEPT !.passed = FALSE]

\* the poll loop's verdict once the callbacks have run
shouldRetry(x) == x.waitForMs > 0 /\ x.now < x.waitForMs

\* a failure is a timeout when a budget was given and it ran out
done(x, found) ==
  [x EXCEPT !.state = IF x.passed THEN "PASSED"
                      ELSE IF found /\ x.waitForMs > 0 /\ x.now >= x.waitForMs
                        THEN "TIMED_OUT"
                        ELSE "FAILED"]

scheduleRetry(x) == [x EXCEPT !.state = "RETRY_SCHEDULED", !.retries = @ + 1]

\* the response to a remote check arrives after dt ticks
onResponse(x, obs, dt) ==
  LET t == [x EXCEPT !.now = @ + dt, !.polls = Append(@, obs)]
  IN  IF obs = "notfound"
        THEN done(elementNotFound(t), FALSE)
        ELSE LET e == elementFound(
                        [t EXCEPT !.passed = ((obs = "holds") # t.negate)])
             IN  IF ~e.passed /\ shouldRetry(e) THEN scheduleRetry(e)
                                                ELSE done(e, TRUE)

\* retryCommand: the retry timer fires and the check is issued again
retryCommandEnabled(x) == x.state = "RETRY_SCHEDULED"

\* mutant: the retry starts the assertion over instead of polling again
retryCommand_restarts(x) ==
  [x EXCEPT !.state = "PENDING", !.now = @ + x.pollInterval]

retryCommand(x) == executeCommand([x EXCEPT !.now = @ + x.pollInterval])

start ==
  /\ a.state = "PENDING"
  /\ a' = executeCommand(a)
  /\ UNCHANGED reporterVars

response(obs, dt) ==
  /\ a.state = "EXECUTING"
  /\ a' = onResponse(a, obs, dt)
  /\ UNCHANGED reporterVars

retry ==
  /\ retryCommandEnabled(a)
  /\ a' = retryCommand(a)
  /\ UNCHANGED reporterVars

InitAssertion ==
  /\ \E negate \in BOOLEAN, waitForMs \in 0..MaxWait,
        pollInterval \in PollIntervals, hasCond \in BOOLEAN :
       a = TextAssertion(negate, waitForMs, pollInterval, hasCond)
  /\ settings = Config(FALSE, AllOn, TRUE, 0).settings
  /\ suiteRetries = TRUE
  /\ retrySet = {}
  /\ currentContext = NoContext
  /\ currentTestCase = ""
  /\ curKey = ""
  /\ testcases = [t \in TestNames |-> DefaultTestResult(0)]
  /\ saving = {}
  /\ events = [t \in TestNames |-> NoEvents]
  /\ lastOp = Op("constructor", NoErr, FALSE, 0, FALSE, <<>>)
  /\ nEvents = 0

NextAssertion ==
  \/ start
  \/ \E obs \in Observations, dt \in Latencies : response(obs, dt)
  \/ retry

SpecAssertion == InitAssertion /\ [][NextAssertion]_vars

\* every remote check is answered and every armed retry timer fires
SpecAssertionFair == SpecAssertion /\ WF_vars(NextAssertion)

----------------------------------------------------------------------------
(* Properties of the Reporter (Spec)                                        *)

\* the current test is scheduled for retry, read off the state
RetryScheduled ==
  /\ currentTestCase # Null
  /\ suiteRetries
  /\ currentTestCase \in retrySet

\* the counting decision as the specification words it; a flag is set when
\* it holds true, unset when the property is missing
Counted(err) ==
  /\ err.incrementErrorCount \in {"true", "undefined"}
  /\ ~RetryScheduled
  /\ err.incrementErrorsNo # "true"

PlainErr == Err("e1", "undefined", "undefined", "undefined")

\* C1: for every error object and every state of the retry registry,
\* shouldIncrementTotalCount(err) is true exactly when incrementErrorCount is
\* true or unset, the current test is not scheduled for retry and
\* incrementErrorsNo is not set; without a current test or a registry the
\* retry term counts as not scheduled.
C1_Decision ==
  \A err \in AllErrs : shouldIncrementTotalCount(err) = Counted(err)

C1_Witness ==
  /\ lastOp.op = "registerFailed"
  /\ lastOp.err = PlainErr
  /\ lastOp.counted = FALSE
  /\ RetryScheduled

\* C2 as claimed: registerFailed(err) with a false decision leaves
\* counts.failed alone and appends exactly one entry to the assertions log.
C2_Original ==
  [][(lastOp'.op = "registerFailed" /\ ~Counted(lastOp'.err)) =>
       /\ testcases'[curKey].failed = testcases[curKey].failed
       /\ Len(testcases'[curKey].assertions)
            = Len(testcases[curKey].assertions) + 1]_vars

\* C2 amended: registerFailed(err) with a false decision leaves counts.failed
\* alone, replaces lastError and does not touch the assertions log (entries
\* are appended by logAssertResult alone).
C2_Amended ==
  [][(lastOp'.op = "registerFailed" /\ ~Counted(lastOp'.err)) =>
       testcases' = [testcases EXCEPT ![curKey].lastError = lastOp'.err]]_vars

C2_Witness ==
  /\ lastOp.op = "registerFailed"
  /\ RetryScheduled
  /\ events[curKey].failed = 1
  /\ currentTestResult.failed = 0
  /\ Len(currentTestResult.assertions) = 1

\* C3: registerPassed increments the passed count of the current test result
\* by exactly one on every call, whatever the registry, the settings and the
\* earlier failures and errors; nothing else in the ledger changes.
C3_Passed ==
  [][lastOp'.op = "registerPassed" =>
       testcases' = [testcases EXCEPT ![curKey].passed = @ + 1]]_vars

C3_Witness ==
  /\ lastOp.op = "registerPassed"
  /\ RetryScheduled
  /\ events[curKey].failed = 1
  /\ currentTestResult.passed = 1

\* C4: registerTestError(err) appends the formatted error to the error log
\* exactly when the event is counted and err.detailedLogging is true or
\* unset; otherwise the error log is unchanged; lastError is replaced in
\* every case.
C4_ErrorLog ==
  [][lastOp'.op = "registerTestError" =>
       LET err  == lastOp'.err
           old  == testcases[curKey]
           new  == testcases'[curKey]
           logs == Counted(err) /\ err.detailedLogging \in {"true", "undefined"}
       IN  /\ new.errmessages =
                IF logs THEN Append(old.errmessages, errorToStackTrace(err))
                        ELSE old.errmessages
           /\ new.lastError = err]_vars

C4_Witness ==
  /\ lastOp.op = "registerTestError"
  /\ lastOp.err.detailedLogging = "false"
  /\ lastOp.counted
  /\ currentTestResult.errors = 1
  /\ currentTestResult.errmessages = <<>>
  /\ currentTestResult.lastError = lastOp.err

Counters == {"passed", "failed", "errors", "skipped"}

ScreenshotOps == {"saveFailureScreenshot", "saveErrorScreenshot",
                  "screenshotSaved"}

ExpectedMessage(r) ==
  LET parts == failureMsgParts(r)
      n     == Len(parts)
  IN  IF n <= 1 THEN join(parts, <<",", " ">>)
      ELSE join(SubSeq(parts, 1, n - 1), <<",", " ">>)
             \o <<" ", "and", " ">> \o parts[n]

\* C10: getFailureMessage() lists the counters above zero in the order
\* failed, errors, passed, skipped, joined by ', ' and, before the last part,
\* by the word 'and' between single spaces.
C10_Message ==
  lastOp.op = "getFailureMessage" =>
    lastOp.ret = ExpectedMessage(currentTestResult)

----------------------------------------------------------------------------
(* Properties of the assertion (SpecAssertion)                              *)

AllHeld(x) == \A i \in 1..Len(x.polls) : x.polls[i] = "holds"

LastPoll(x) == x.polls[Len(x.polls)]

\* C5: a negated assertion whose target is observed present, the condition
\* holding, on every poll never passes: it ends FAILED or TIMED_OUT, and only
\* once the budget is used up.
C5_NegatedPresent ==
  (a.negate /\ AllHeld(a)) =>
    /\ a.state # "PASSED"
    /\ Terminal(a.state) => a.now >= a.waitForMs

C5_Witness ==
  /\ a.negate
  /\ a.polls = <<"holds", "holds">>
  /\ a.state = "TIMED_OUT"

AbsentBeforeTimeout ==
  /\ a.negate
  /\ Terminal(a.state)
  /\ LastPoll(a) = "notfound"
  /\ a.now < a.waitForMs

\* C6 as claimed: a negated assertion whose target is reported not found
\* before the budget is used up ends PASSED.
C6_Original == AbsentBeforeTimeout => a.state = "PASSED"

\* C6 amended: a negated assertion whose target is reported not found before
\* the budget is used up ends FAILED, with passed false.
C6_Amended == AbsentBeforeTimeout => (a.state = "FAILED" /\ ~a.passed)

C6_Witness ==
  /\ AbsentBeforeTimeout
  /\ a.polls = <<"holds", "notfound">>
  /\ a.state = "FAILED"

Rank(state) ==
  CASE state = "PENDING" -> 0
    [] state = "EXECUTING" -> 1
    [] state = "RETRY_SCHEDULED" -> 2
    [] OTHER -> 3

\* C7: once PASSED, FAILED or TIMED_OUT is reached the assertion does not
\* change and no remote check is issued; the only step back is from
\* RETRY_SCHEDULED to EXECUTING.
C7_TerminalFinal ==
  [][/\ Terminal(a.state) => a' = a
     /\ a'.remoteCalls # a.remoteCalls => ~Terminal(a.state)
     /\ Rank(a'.state) < Rank(a.state) =>
          (a.state = "RETRY_SCHEDULED" /\ a'.state = "EXECUTING")]_vars

C7_Witness ==
  /\ Terminal(a.state)
  /\ a.retries = 2
  /\ a.remoteCalls = 3

----------------------------------------------------------------------------
(* Screenshots, the retry registry and exceptions (Spec)                   *)

\* C11: a file reference logged by saveFailureScreenshot appears in a test's
\* screenshot log only once the screenshot service has signalled completion
\* of its save request: no logged reference is still being saved.
C11_LoggedOnCompletion ==
  \A t \in TestNames :
    \A i \in 1..Len(testcases[t].screenshots) :
      testcases[t].screenshots[i] \notin saving

\* the condition of the claim, read off the state: screenshots are enabled,
\* wanted on failure, and the run is not in unit-test mode, which the
\* current context decides when there is one and the settings otherwise
FailureScreenshotWanted ==
  /\ settings.screenshots.present
  /\ settings.screenshots.enabled
  /\ settings.screenshots.on_failure
  /\ ~(IF currentContext.present
         THEN currentContext.unitTestsMode
         ELSE settings.unit_tests_mode)

\* C12: saveFailureScreenshot issues a request to the screenshot service and
\* logs a file reference only when screenshots.enabled and
\* screenshots.on_failure are set and the run is not in unit-test mode;
\* otherwise no request is issued and the ledger is left unchanged. With a
\* current test and the condition met, one reference is logged for the
\* current test and its save is requested.
C12_FailureScreenshot ==
  [][lastOp'.op = "saveFailureScreenshot" =>
       /\ (testcases' # testcases \/ saving' # saving)
            => FailureScreenshotWanted
       /\ ~FailureScreenshotWanted => UNCHANGED <<testcases, saving>>
       /\ (FailureScreenshotWanted /\ currentTestCase # Null) =>
            /\ Len(testcases'[curKey].screenshots) =
                 Len(testcases[curKey].screenshots) + 1
            /\ testcases'[curKey].screenshots[
                 Len(testcases'[curKey].screenshots)] \in saving'
            /\ \A c \in Counters :
                 testcases'[curKey][c] = testcases[curKey][c]]_vars

\* the current context says unit-test mode while the settings do not: no
\* screenshot is taken although everything is switched on
C12_Witness ==
  /\ lastOp.op = "saveFailureScreenshot"
  /\ currentContext.present
  /\ currentContext.unitTestsMode
  /\ ~settings.unit_tests_mode
  /\ settings.screenshots = AllOn
  /\ currentTestCase = "t1"
  /\ currentTestResult.screenshots = <<>>
  /\ saving = {}

RegisterOps == {"registerFailed", "registerTestError"}

\* C13: with a retry registry and a current test, each call of
\* registerFailed and each call of registerTestError issues exactly one
\* shouldRetryTest query.
C13_OneQuery ==
  (/\ lastOp.op \in RegisterOps
   /\ suiteRetries
   /\ currentTestCase # Null) => lastOp.queries = 1

\* C14: no Reporter operation throws or returns a rejected promise, with or
\* without a current test case and with or without settings.screenshots.
C14_NeverThrows == ~lastOp.threw

\* C15: registerFailed(err) and registerTestError(err) leave err itself as
\* lastError of the current test result, counted or not, and no other
\* operation touches any lastError: lastError of a test is the error object
\* of the most recent such call made while the test was current.
C15_LastError ==
  [][IF lastOp'.op \in RegisterOps
       THEN /\ testcases'[curKey].lastError = lastOp'.err
            /\ \A t \in TestNames \ {curKey} :
                 testcases'[t].lastError = testcases[t].lastError
       ELSE \A t \in TestNames :
              testcases'[t].lastError = testcases[t].lastError]_vars

\* a counted failure followed by a suppressed one with another error object
C15_Witness ==
  /\ lastOp.op = "registerFailed"
  /\ ~lastOp.counted
  /\ lastOp.err = Err("e2", "false", "undefined", "undefined")
  /\ currentTestResult.lastError = lastOp.err
  /\ events[curKey].failed = 2
  /\ currentTestResult.failed = 1

----------------------------------------------------------------------------
(* The pass annotation, absence and termination (SpecAssertion)            *)

\* C16: an assertion that ends PASSED with a non-zero waitForMs has exactly
\* one fragment ' - ... in <elapsedMs>ms' in messageParts, negated or not
\* and whatever the number of retries; with waitForMs zero it has none.
C16_Annotated ==
  a.state = "PASSED" =>
    IF a.waitForMs > 0
      THEN /\ Len(a.messageParts) = 1
           /\ a.messageParts[1][1] = " - "
           /\ a.messageParts[1][3] = " in "
           /\ a.messageParts[1][4] = a.now
           /\ a.messageParts[1][5] = "ms"
      ELSE a.messageParts = <<>>

\* C17: when the lookup of a non-negated assertion cannot resolve the
\* target, passed is false and the assertion is in its terminal failed
\* state at once, whatever is left of the budget, and no check has been
\* issued beyond the ones answered.
C17_NotFoundFails ==
  (/\ a.state # "IDLE"
   /\ ~a.negate
   /\ Len(a.polls) > 0
   /\ LastPoll(a) = "notfound") =>
     /\ a.state = "FAILED"
     /\ ~a.passed
     /\ a.remoteCalls = Len(a.polls)

\* the target disappears on the second poll, with budget left
C17_Witness ==
  /\ a.state = "FAILED"
  /\ ~a.negate
  /\ a.polls = <<"fails", "notfound">>
  /\ a.waitForMs = MaxWait
  /\ a.now < a.waitForMs
  /\ a.retries = 1

AllFailed(x) == \A i \in 1..Len(x.polls) : x.polls[i] = "fails"

\* C19: when every remote check is answered the assertion reaches a
\* terminal state; each poll cycle issues the remote check exactly once; no
\* poll is issued after the budget ran out, so there are at most
\* waitForMs / pollInterval polls (rounded up) after the first one; and a
\* non-negated assertion whose predicate is false on every poll ends failed
\* (FAILED, or TIMED_OUT when a budget ran out), never passed.
C19_Terminates ==
  /\ <>Terminal(a.state)
  /\ [](a.remoteCalls =
          Len(a.polls) + (IF a.state = "EXECUTING" THEN 1 ELSE 0))
  /\ [](a.remoteCalls >= 2 =>
          (a.remoteCalls - 2) * a.pollInterval < a.waitForMs)
  /\ []((Terminal(a.state) /\ ~a.negate /\ AllFailed(a)) =>
          (a.state \in {"FAILED", "TIMED_OUT"} /\ ~a.passed))

\* the budget is used up by answers that come at once: one poll per tick
C19_Witness ==
  /\ a.state = "TIMED_OUT"
  /\ ~a.negate
  /\ AllFailed(a)
  /\ a.waitForMs = MaxWait
  /\ a.pollInterval = 1
  /\ a.remoteCalls = MaxWait + 1
====
